---- MODULE Spec2Model ----
(***************************************************************************)
(* A model of the crush language runtime slices: the iteration driver      *)
(* `for` (builtins/control/for.rs), the AST compiler (lang/ast/node.rs)    *)
(* and the value types (lang/value/value_type.rs).                         *)
(***************************************************************************)
EXTENDS Integers, Sequences, FiniteSets, TLC

(***************************************************************************)
(* Bounds of the model.                                                    *)
(***************************************************************************)
MaxRows == 2
MaxCols == 2
MaxEmit == 2
MaxArgs == 3
MaxPos == 2
MaxDepth == 2
MaxOps == 2

VARIABLES
    \* ---- the iteration driver, for.rs ----
    pc,          \* position of r#for: start, read, body, recv, done
    arguments,   \* context.arguments: the call's arguments
    types,       \* input.types(): the stream's column schema
    rows,        \* the rows the stream's producer delivers before the reader fails
    readErr,     \* the error input.read() returns after the last row
    nread,       \* number of rows read so far
    lastRead,    \* the Result of the last input.read(): None, Ok or the error
    cfg,         \* the For struct that For::parse returned, once it has
    name,        \* the iterator binding's key
    forLocation, \* context.arguments[0].location
    scopes,      \* the scope frames; frame 1 is context.scope
    localq,      \* the local pipe (sender, receiver) of line 27
    output,      \* messages delivered to context.output
    bodyCalls,   \* the contexts of the body invocations so far
    emitted,     \* messages the running body invocation has sent
    bodyResult,  \* the result of the last cfg.body.eval(..), None while it runs
    result,      \* the CrushResult of r#for: running, ok, or an error
    \* ---- the AST compiler, node.rs ----
    node,        \* the Node being compiled
    scope,       \* env: the static commands the scope resolves
    asCommand,   \* the result of node.compile_command(env), once called
    asArgument,  \* the result of node.compile_argument(env), once called
    special,     \* the result of node.compile_as_special_command(env), once called
    located,     \* the result of node.location(), once called
    \* ---- the value types, value_type.rs and lib/type.rs ----
    ty,          \* the ValueType built so far
    mat,         \* ty.materialize(), once called
    mat2,        \* ty.materialize().materialize(), once called
    \* ---- a call of a command of the comp namespace, lib/comp.rs ----
    compCmd,     \* the command called, "none" before the call
    compArgs,    \* context.arguments at the call
    compOutput,  \* the values delivered through context.output
    compResult,  \* the CrushResult of the call, "none" before it returns
    \* ---- a cell parsed from text, ValueType::parse ----
    cellType,    \* the ValueType of the cell
    cellText,    \* the text of the cell
    cell,        \* cellType.parse(cellText), once called
    \* ---- the root scope and the namespaces of the standard library ----
    scopeTree,   \* the frames root, comp and type: bindings, imports, read-only flag
    registered,  \* the result of each registration function, "none" before its call
    lastOp,      \* the last declaration or assignment made after the start-up
    nops         \* the number of such operations

forVars == <<pc, arguments, types, rows, readErr, nread, lastRead, cfg, name, forLocation,
             scopes, localq, output, bodyCalls, emitted, bodyResult, result>>

astVars == <<node, scope, asCommand, asArgument, special, located>>

typeVars == <<ty, mat, mat2>>

compVars == <<compCmd, compArgs, compOutput, compResult>>

parseVars == <<cellType, cellText, cell>>

scopeVars == <<scopeTree, registered, lastOp, nops>>

vars == <<forVars, astVars, typeVars, compVars, parseVars, scopeVars>>

(***************************************************************************)
(* Helpers.                                                                *)
(***************************************************************************)
SeqsUpTo(S, n) == UNION {[1..k -> S] : k \in 0..n}

\* Option::None for an argument's name
None == "None"

ArgNames == {"i", "j"}
\* the texts of a row's cells, by column: two rows an input stream may carry
RowTexts == {<<"x1", "x2", "x3", "x4">>, <<"y1", "y2", "y3", "y4">>}
ColNames == <<"a", "b", "c", "d">>
ReadErrors == {"end_of_stream", "closed_remote", "io_error"}

\* A cell of a row: a Value::String
Cell(s) == [kind |-> "String", s |-> s]

\* ColumnType::new(name, cell_type)
ColumnType(n, t) == [name |-> n, cell_type |-> t]

\* The schemas of the input streams: k columns named a, b, ...
Schema(k) == [c \in 1..k |-> ColumnType(ColNames[c], [t |-> "String"])]

\* A row of k cells
Row(k, t) == [c \in 1..k |-> Cell(t[c])]

\* Argument of the call: optional name and location
ArgumentOf(n, l) == [name |-> n, location |-> l]

\* Argument::new(name, value, location)
Argument_new(n, v, l) == [name |-> n, value |-> v, location |-> l]

\* Struct::from_vec(values, types): the cells in order, named by the schema
Struct_from_vec(values, tys) ==
    [kind |-> "Struct",
     fields |-> [c \in 1..Len(tys) |-> [name |-> tys[c].name, value |-> values[c]]]]

\* Scope::create_child(parent, is_loop): a new frame below parent
create_child(frames, parent, is_loop) ==
    Append(frames, [parent |-> parent, is_loop |-> is_loop, is_stopped |-> FALSE])

\* Scope::is_stopped
is_stopped(frames, s) == frames[s].is_stopped

\* Scope::stop on the frame s
stop(frames, s) == [frames EXCEPT ![s].is_stopped = TRUE]

\* For::parse: the named arguments become the iterator map
For_parse_iterator(args) == SelectSeq(args, LAMBDA a : a.name # None)

\* the scope of the running iteration: the frame created last
env == Len(scopes)

\* no compilation in progress
NotRun == [run |-> FALSE]

IdleAst ==
    /\ node = [kind |-> "none"]
    /\ scope = {}
    /\ asCommand = NotRun
    /\ asArgument = NotRun
    /\ special = NotRun
    /\ located = NotRun

\* enum ValueType: the variants without parameters
ValueType(t) == [t |-> t]

\* no type under construction
IdleType ==
    /\ ty = ValueType("Empty")
    /\ mat = NotRun
    /\ mat2 = NotRun

\* a frame of the scope tree
Frame(exists, bindings, uses, readonly) ==
    [exists |-> exists, bindings |-> bindings, uses |-> uses, readonly |-> readonly]
NoBindings == [n \in {} |-> "none"]
NoFrame == Frame(FALSE, NoBindings, <<>>, FALSE)
Namespaces == {"comp", "type"}
NoOp == [kind |-> "none"]

\* a root scope without namespaces
FreshRoot ==
    [f \in {"root"} \cup Namespaces |->
        IF f = "root" THEN Frame(TRUE, NoBindings, <<>>, FALSE) ELSE NoFrame]

\* the root scope before the start-up
IdleScope ==
    /\ scopeTree = FreshRoot
    /\ registered = [ns \in Namespaces |-> "none"]
    /\ lastOp = NoOp
    /\ nops = 0

\* no cell to parse
IdleParse ==
    /\ cellType = ValueType("Empty")
    /\ cellText = <<>>
    /\ cell = NotRun

\* no call of a comparison in progress
IdleComp ==
    /\ compCmd = "none"
    /\ compArgs = <<>>
    /\ compOutput = <<>>
    /\ compResult = "none"

\* no call of `for` in progress
IdleFor ==
    /\ pc = "idle"
    /\ arguments = <<>>
    /\ types = <<>>
    /\ rows = <<>>
    /\ readErr = "end_of_stream"
    /\ nread = 0
    /\ lastRead = None
    /\ cfg = [parsed |-> FALSE, iterator |-> <<>>]
    /\ name = None
    /\ forLocation = 0
    /\ scopes = <<[parent |-> 0, is_loop |-> FALSE, is_stopped |-> FALSE]>>
    /\ localq = <<>>
    /\ output = <<>>
    /\ bodyCalls = <<>>
    /\ emitted = 0
    /\ bodyResult = None
    /\ result = "running"

(***************************************************************************)
(* Init: a call of `for` with some arguments and some input stream.        *)
(***************************************************************************)
ArgLists ==
    UNION {[1..k -> {ArgumentOf(n, 0) : n \in ArgNames \cup {None}}] : k \in 0..MaxArgs}

InitFor ==
    /\ pc = "start"
    /\ \E al \in ArgLists :
         arguments = [k \in 1..Len(al) |-> ArgumentOf(al[k].name, k)]
    /\ \E k \in 0..MaxCols :
         /\ types = Schema(k)
         /\ rows \in SeqsUpTo({Row(k, t) : t \in RowTexts}, MaxRows)
    /\ readErr \in ReadErrors
    /\ nread = 0
    /\ lastRead = None
    /\ cfg = [parsed |-> FALSE, iterator |-> <<>>]
    /\ name = None
    /\ forLocation = 0
    /\ scopes = <<[parent |-> 0, is_loop |-> FALSE, is_stopped |-> FALSE]>>
    /\ localq = <<>>
    /\ output = <<>>
    /\ bodyCalls = <<>>
    /\ emitted = 0
    /\ bodyResult = None
    /\ result = "running"
    /\ IdleAst
    /\ IdleType
    /\ IdleComp
    /\ IdleParse
    /\ IdleScope

(***************************************************************************)
(* r#for, lines 26-38: the argument checks.                                *)
(***************************************************************************)
Return(r) ==
    /\ pc' = "done"
    /\ result' = r

\* Validate with the binding count checked as "at least one"
Validate_atLeastOne ==
    /\ pc = "start"
    /\ UNCHANGED <<arguments, types, rows, readErr, nread, lastRead, scopes, localq,
                   output, bodyCalls, emitted, bodyResult>>
    /\ IF Len(arguments) # 2
       THEN Return("argument_error") /\ UNCHANGED <<name, forLocation, cfg>>
       ELSE LET iterator == For_parse_iterator(arguments) IN
            /\ forLocation' = arguments[1].location
            /\ cfg' = [parsed |-> TRUE, iterator |-> iterator]
            /\ IF Len(iterator) < 1
               THEN Return("argument_error") /\ UNCHANGED name
               ELSE /\ name' = iterator[1].name
                    /\ pc' = "read"
                    /\ UNCHANGED result

Validate ==
    /\ pc = "start"
    /\ UNCHANGED <<arguments, types, rows, readErr, nread, lastRead, scopes, localq,
                   output, bodyCalls, emitted, bodyResult>>
    /\ IF Len(arguments) # 2
       THEN Return("argument_error") /\ UNCHANGED <<name, forLocation, cfg>>
       ELSE \E parseOk \in BOOLEAN :
              IF ~parseOk
              THEN Return("parse_error") /\ UNCHANGED <<name, cfg>>
                   /\ forLocation' = arguments[1].location
              ELSE LET iterator == For_parse_iterator(arguments) IN
                   /\ forLocation' = arguments[1].location
                   /\ cfg' = [parsed |-> TRUE, iterator |-> iterator]
                   /\ IF Len(iterator) # 1
                      THEN Return("argument_error") /\ UNCHANGED name
                      ELSE /\ name' = iterator[1].name
                           /\ pc' = "read"
                           /\ UNCHANGED result

(***************************************************************************)
(* r#for, lines 40-54: read a row, create the child scope, bind the row.   *)
(***************************************************************************)
\* RowValue taking the first cell whenever there is one
RowValue_firstCell(line, tys) ==
    IF Len(tys) >= 1 THEN line[1] ELSE Struct_from_vec(line, tys)

RowValue(line, tys) ==
    IF Len(tys) = 1 THEN line[1] ELSE Struct_from_vec(line, tys)

\* Read with the reader's error propagated (input.read()?) unless end of stream
Read_propagate ==
    /\ pc = "read"
    /\ UNCHANGED <<arguments, types, rows, readErr, cfg, name, forLocation, localq, output>>
    /\ IF nread < Len(rows)
       THEN /\ nread' = nread + 1
            /\ lastRead' = "Ok"
            /\ scopes' = create_child(scopes, 1, TRUE)
            /\ bodyCalls' = Append(bodyCalls,
                               [scope |-> Len(scopes) + 1,
                                arguments |-> <<Argument_new(name,
                                                  RowValue(rows[nread + 1], types),
                                                  forLocation)>>,
                                output |-> "sender"])
            /\ emitted' = 0
            /\ bodyResult' = None
            /\ pc' = "body"
            /\ UNCHANGED result
       ELSE /\ lastRead' = readErr
            /\ Return(IF readErr = "end_of_stream" THEN "ok" ELSE readErr)
            /\ UNCHANGED <<nread, scopes, bodyCalls, emitted, bodyResult>>

Read ==
    /\ pc = "read"
    /\ UNCHANGED <<arguments, types, rows, readErr, cfg, name, forLocation, localq, output>>
    /\ IF nread < Len(rows)
       THEN LET line == rows[nread + 1]
                vvv == RowValue(line, types)
            IN /\ nread' = nread + 1
               /\ lastRead' = "Ok"
               /\ scopes' = create_child(scopes, 1, TRUE)
               /\ bodyCalls' = Append(bodyCalls,
                                  [scope |-> Len(scopes) + 1,
                                   arguments |-> <<Argument_new(name, vvv, forLocation)>>,
                                   output |-> "sender"])
               /\ emitted' = 0
               /\ bodyResult' = None
               /\ pc' = "body"
               /\ UNCHANGED result
       ELSE \* input.read() is Err(readErr): the while-let ends, line 63
            /\ lastRead' = readErr
            /\ Return("ok")
            /\ UNCHANGED <<nread, scopes, bodyCalls, emitted, bodyResult>>

(***************************************************************************)
(* r#for, line 56: cfg.body.eval(...). The body may send on the local      *)
(* sender, may stop its scope, and returns Ok or Err.                      *)
(***************************************************************************)
BodyEmit ==
    /\ pc = "body"
    /\ emitted < MaxEmit
    /\ emitted' = emitted + 1
    /\ localq' = Append(localq, [iter |-> Len(bodyCalls), seq |-> emitted + 1])
    /\ UNCHANGED <<pc, arguments, types, rows, readErr, nread, lastRead, cfg, name, forLocation,
                   scopes, output, bodyCalls, result, bodyResult>>

BodyStop ==
    /\ pc = "body"
    /\ ~is_stopped(scopes, env)
    /\ scopes' = stop(scopes, env)
    /\ UNCHANGED <<pc, arguments, types, rows, readErr, nread, lastRead, cfg, name, forLocation,
                   localq, output, bodyCalls, emitted, result, bodyResult>>

BodyReturnOk ==
    /\ pc = "body"
    /\ pc' = "recv"
    /\ bodyResult' = "Ok"
    /\ UNCHANGED <<arguments, types, rows, readErr, nread, lastRead, cfg, name, forLocation,
                   scopes, localq, output, bodyCalls, emitted, result>>

\* BodyReturnErr with the error of the body dropped: the iteration goes on
BodyReturnErr_swallowed ==
    /\ pc = "body"
    /\ pc' = "recv"
    /\ bodyResult' = "Err"
    /\ UNCHANGED <<arguments, types, rows, readErr, nread, lastRead, cfg, name, forLocation,
                   scopes, localq, output, bodyCalls, emitted, result>>

BodyReturnErr ==
    /\ pc = "body"
    /\ Return("body_error")
    /\ bodyResult' = "Err"
    /\ UNCHANGED <<arguments, types, rows, readErr, nread, lastRead, cfg, name, forLocation,
                   scopes, localq, output, bodyCalls, emitted>>

(***************************************************************************)
(* r#for, lines 57-61: forward one message and break, or drain one.        *)
(* receiver.recv() blocks while the local pipe is empty: r#for itself      *)
(* holds `sender`, so the pipe is never closed.                            *)
(***************************************************************************)
\* Forward without the break of line 59
Forward_noBreak ==
    /\ pc = "recv"
    /\ is_stopped(scopes, env)
    /\ localq # <<>>
    /\ localq' = Tail(localq)
    /\ output' = Append(output, Head(localq))
    /\ pc' = "read"
    /\ UNCHANGED <<arguments, types, rows, readErr, nread, lastRead, cfg, name, forLocation,
                   scopes, bodyCalls, emitted, result, bodyResult>>

Forward ==
    /\ pc = "recv"
    /\ is_stopped(scopes, env)
    /\ localq # <<>>
    /\ localq' = Tail(localq)
    /\ \E sendOk \in BOOLEAN :
         IF sendOk
         THEN output' = Append(output, Head(localq)) /\ Return("ok")
         ELSE UNCHANGED output /\ Return("send_error")
    /\ UNCHANGED <<arguments, types, rows, readErr, nread, lastRead, cfg, name, forLocation,
                   scopes, bodyCalls, emitted, bodyResult>>

\* Drain that forwards the message it receives instead of discarding it
Drain_forward ==
    /\ pc = "recv"
    /\ ~is_stopped(scopes, env)
    /\ localq # <<>>
    /\ localq' = Tail(localq)
    /\ output' = Append(output, Head(localq))
    /\ pc' = "read"
    /\ UNCHANGED <<arguments, types, rows, readErr, nread, lastRead, cfg, name, forLocation,
                   scopes, bodyCalls, emitted, result, bodyResult>>

Drain ==
    /\ pc = "recv"
    /\ ~is_stopped(scopes, env)
    /\ localq # <<>>
    /\ localq' = Tail(localq)
    /\ pc' = "read"
    /\ UNCHANGED <<arguments, types, rows, readErr, nread, lastRead, cfg, name, forLocation,
                   scopes, output, bodyCalls, emitted, result, bodyResult>>

NextFor ==
    \/ Validate /\ UNCHANGED <<astVars, typeVars, compVars, parseVars, scopeVars>>
    \/ Read /\ UNCHANGED <<astVars, typeVars, compVars, parseVars, scopeVars>>
    \/ BodyEmit /\ UNCHANGED <<astVars, typeVars, compVars, parseVars, scopeVars>>
    \/ BodyStop /\ UNCHANGED <<astVars, typeVars, compVars, parseVars, scopeVars>>
    \/ BodyReturnOk /\ UNCHANGED <<astVars, typeVars, compVars, parseVars, scopeVars>>
    \/ BodyReturnErr /\ UNCHANGED <<astVars, typeVars, compVars, parseVars, scopeVars>>
    \/ Forward /\ UNCHANGED <<astVars, typeVars, compVars, parseVars, scopeVars>>
    \/ Drain /\ UNCHANGED <<astVars, typeVars, compVars, parseVars, scopeVars>>

Spec == InitFor /\ [][NextFor]_vars

\* the thread of r#for and the body it evaluates keep running: a step that
\* can be taken is taken
SpecLive == InitFor /\ [][NextFor]_vars /\ WF_vars(NextFor)

(***************************************************************************)
(* The AST, lang/ast/node.rs. Texts are sequences of characters.           *)
(***************************************************************************)
Min(a, b) == IF a <= b THEN a ELSE b
Max(a, b) == IF a >= b THEN a ELSE b

\* Location: a span [start, end) of the source text
Location(s, e) == [start |-> s, end |-> e]

\* Location::union: the smallest span containing both
union(a, b) == Location(Min(a.start, b.start), Max(a.end, b.end))

\* TrackedString::new(string, location)
TrackedString_new(str, l) == [string |-> str, location |-> l]

\* enum Node, one constructor per variant
Assignment(target, style, op, value) ==
    [kind |-> "Assignment", target |-> target, style |-> style, op |-> op, value |-> value]
Unary(uop, arg) == [kind |-> "Unary", uop |-> uop, arg |-> arg]
Glob(s) == [kind |-> "Glob", s |-> s]
Identifier(s) == [kind |-> "Identifier", s |-> s]
Regex(s) == [kind |-> "Regex", s |-> s]
String(s, quoted) == [kind |-> "String", s |-> s, quoted |-> quoted]
File(s, quoted) == [kind |-> "File", s |-> s, quoted |-> quoted]
Integer(s) == [kind |-> "Integer", s |-> s]
Float(s) == [kind |-> "Float", s |-> s]
GetItem(a, b) == [kind |-> "GetItem", a |-> a, b |-> b]
GetAttr(p, n) == [kind |-> "GetAttr", p |-> p, n |-> n]
Substitution(j) == [kind |-> "Substitution", j |-> j]
Closure(params, j) == [kind |-> "Closure", params |-> params, j |-> j]

TokenKinds == {"Glob", "Identifier", "Regex", "String", "Integer", "Float", "File"}

\* Node::location
RECURSIVE location(_)
location(self) ==
    CASE self.kind \in TokenKinds -> self.s.location
      [] self.kind = "Assignment" -> union(location(self.target), location(self.value))
      [] self.kind = "Unary" -> union(self.uop.location, location(self.arg))
      [] self.kind = "GetItem" -> union(location(self.a), location(self.b))
      [] self.kind = "GetAttr" -> union(location(self.p), self.n.location)
      [] self.kind = "Substitution" -> self.j.location
      [] self.kind = "Closure" -> self.j.location

\* Node::type_name
type_name(self) ==
    CASE self.kind = "Assignment" -> "assignment"
      [] self.kind = "Unary" -> "unary operator"
      [] self.kind = "Glob" -> "glob"
      [] self.kind = "Identifier" -> "identifier"
      [] self.kind = "Regex" -> "regular expression literal"
      [] self.kind = "String" -> "string literal"
      [] self.kind = "File" -> "file literal"
      [] self.kind = "Integer" -> "integer literal"
      [] self.kind = "Float" -> "floating point number literal"
      [] self.kind = "GetItem" -> "subscript"
      [] self.kind = "GetAttr" -> "member access"
      [] self.kind = "Substitution" -> "command substitution"
      [] self.kind = "Closure" -> "closure"

(***************************************************************************)
(* Results, values and definitions.                                        *)
(***************************************************************************)
\* CrushResult: Ok(v) or an error with its message
Ok(v) == [ok |-> TRUE, v |-> v]
ErrGot(msg, got) == [ok |-> FALSE, error |-> msg, got |-> got, panic |-> FALSE]
Err(msg) == ErrGot(msg, "")
\* the panic of Option::unwrap on None
Panic ==
    [ok |-> FALSE, error |-> "called Option::unwrap() on a None value", got |-> "",
     panic |-> TRUE]

\* Option<CommandInvocation>
Some(x) == [some |-> TRUE, inv |-> x]
NoInvocation == [some |-> FALSE]

\* Value variants
Value_String(str) == [kind |-> "String", s |-> str]
Value_Integer(i) == [kind |-> "Integer", i |-> i]
Value_Float(mant, scale) == [kind |-> "Float", mant |-> mant, scale |-> scale]
Value_Regex(src) == [kind |-> "Regex", source |-> src]
Value_Glob(g) == [kind |-> "Glob", glob |-> g]
Value_File(path) == [kind |-> "File", path |-> path]
Value_Command(path) == [kind |-> "Command", command |-> path]

\* ValueDefinition variants
VD_Value(v, l) == [def |-> "Value", value |-> v, location |-> l]
VD_Identifier(s) == [def |-> "Identifier", s |-> s]
VD_GetAttr(inner, n) == [def |-> "GetAttr", inner |-> inner, n |-> n]
VD_JobDefinition(job) == [def |-> "JobDefinition", job |-> job]
VD_ClosureDefinition(cname, params, body, l) ==
    [def |-> "ClosureDefinition", cname |-> cname, params |-> params,
     body |-> body, location |-> l]

\* ArgumentDefinition constructors
ArgumentDefinition_unnamed(v) == [arg |-> "unnamed", value |-> v]
ArgumentDefinition_named_with_style(n, style, v) ==
    [arg |-> "named", name |-> n, style |-> style, value |-> v]
ArgumentDefinition_named(n, v) == ArgumentDefinition_named_with_style(n, "None", v)
ArgumentDefinition_list(v) == [arg |-> "list", value |-> v]
ArgumentDefinition_dict(v) == [arg |-> "dict", value |-> v]

\* ArgumentDefinition::unnamed_value: the value of an argument without a name
unnamed_value(a) ==
    IF a.arg = "named" THEN Err("Expected an unnamed argument") ELSE Ok(a.value)

\* propose_name: an unnamed closure definition takes the target's name
propose_name(n, v) ==
    IF v.def = "ClosureDefinition" /\ ~v.cname.named
    THEN [v EXCEPT !.cname = [named |-> TRUE, name |-> n]]
    ELSE v

\* Job::new(commands, location) and CommandInvocation::new(command, arguments)
Job_new(commands, l) == [commands |-> commands, location |-> l]
CommandInvocation_new(command, args) == [command |-> command, arguments |-> args]

\* Scope::global_static_cmd(path): the command at a fixed path of the root
global_static_cmd(env_, path) ==
    IF path \in env_ THEN Ok(Value_Command(path)) ELSE Err("Unknown static command")

(***************************************************************************)
(* Conversions of literal texts.                                           *)
(***************************************************************************)
Digits == <<"0", "1", "2", "3", "4", "5", "6", "7", "8", "9">>
IsDigit(c) == \E d \in 1..10 : Digits[d] = c
DigitValue(c) == (CHOOSE d \in 1..10 : Digits[d] = c) - 1

\* str::replace(from, ""): the text without the character from
Remove(str, from) == SelectSeq(str, LAMBDA c : c # from)

RECURSIVE DecimalValue(_)
DecimalValue(ds) ==
    IF ds = <<>> THEN 0
    ELSE 10 * DecimalValue(SubSeq(ds, 1, Len(ds) - 1)) + DigitValue(ds[Len(ds)])

AllDigits(ds) == \A k \in 1..Len(ds) : IsDigit(ds[k])

\* str::parse::<i128>: an optional sign and at least one decimal digit
parse_i128(str) ==
    LET signed == str # <<>> /\ str[1] \in {"+", "-"}
        ds == IF signed THEN Tail(str) ELSE str
    IN IF ds = <<>> \/ ~AllDigits(ds)
       THEN Err("invalid digit found in string")
       ELSE Ok(IF signed /\ str[1] = "-" THEN 0 - DecimalValue(ds) ELSE DecimalValue(ds))

\* 10^k
RECURSIVE Pow10(_)
Pow10(k) == IF k = 0 THEN 1 ELSE 10 * Pow10(k - 1)

\* the decimal mant / 10^scale with the trailing zeros of its fraction dropped
RECURSIVE Decimal(_, _)
Decimal(mant, scale) ==
    IF scale > 0 /\ mant % 10 = 0 THEN Decimal(mant \div 10, scale - 1)
    ELSE [mant |-> mant, scale |-> scale]

\* str::parse::<f64> on decimal texts: digits with an optional point, at
\* least one digit
parse_f64(str) ==
    LET dots == {k \in 1..Len(str) : str[k] = "."}
        ds == Remove(str, ".")
    IN IF Cardinality(dots) > 1 \/ ds = <<>> \/ ~AllDigits(ds)
       THEN Err("invalid float literal")
       ELSE LET scale == IF dots = {} THEN 0
                         ELSE Len(str) - (CHOOSE k \in dots : TRUE)
            IN Ok(Decimal(DecimalValue(ds), scale))

\* Regex::new: fails on a text whose groups are not balanced
RECURSIVE Depth(_)
Depth(str) ==
    IF str = <<>> THEN 0
    ELSE LET d == Depth(SubSeq(str, 1, Len(str) - 1))
             c == str[Len(str)]
         IN IF d < 0 THEN d
            ELSE IF c = "(" THEN d + 1
            ELSE IF c = ")" THEN d - 1
            ELSE d
Regex_new(str) ==
    IF Depth(str) = 0 THEN Ok(Value_Regex(str)) ELSE Err("regex parse error")

\* util::escape::unescape: decodes backslash escapes
RECURSIVE unescape_from(_, _)
unescape_from(str, k) ==
    IF k > Len(str) THEN Ok(<<>>)
    ELSE IF str[k] # "\\"
         THEN LET r == unescape_from(str, k + 1)
              IN IF r.ok THEN Ok(<<str[k]>> \o r.v) ELSE r
    ELSE IF k = Len(str) THEN Err("Premature end of string")
    ELSE LET r == unescape_from(str, k + 2)
             c == IF str[k + 1] = "n" THEN "\n"
                  ELSE IF str[k + 1] = "t" THEN "\t"
                  ELSE str[k + 1]
         IN IF r.ok THEN Ok(<<c>> \o r.v) ELSE r
unescape(str) == unescape_from(str, 1)

(***************************************************************************)
(* Compilation, node.rs lines 111-334. JobNode, JobListNode and            *)
(* ParameterNode carry whether their own compilation succeeds.             *)
(***************************************************************************)
\* Option<TrackedString>::None for a closure's name
NoName == [named |-> FALSE]

\* JobNode::compile and JobListNode::compile: the jobs of the node
Job_compile(j) ==
    IF j.compiles THEN Ok(Job_new(j.commands, j.location)) ELSE Err("job compile error")
JobList_compile(j) ==
    IF j.compiles THEN Ok(j.jobs) ELSE Err("job compile error")

\* ParameterNode::generate over the parameters, collected to one result
Parameters_generate(ps) ==
    IF \A k \in 1..Len(ps) : ps[k].generates
    THEN Ok([k \in 1..Len(ps) |-> ps[k].name])
    ELSE Err("parameter error")

\* the method names of the special commands
GETITEM == <<"_", "_", "g", "e", "t", "i", "t", "e", "m", "_", "_">>
SETITEM == <<"_", "_", "s", "e", "t", "i", "t", "e", "m", "_", "_">>
SETATTR == <<"_", "_", "s", "e", "t", "a", "t", "t", "r", "_", "_">>

RECURSIVE compile(_, _, _)
RECURSIVE compile_as_special_command(_, _)
RECURSIVE compile_standalone_assignment(_, _, _, _)
RECURSIVE method_invocation(_, _, _, _, _)

\* Node::compile_command and Node::compile_argument
compile_command(self, env_) == compile(self, env_, TRUE)
compile_argument(self, env_) == compile(self, env_, FALSE)

\* the pattern n.compile(env, c)?.unnamed_value()?
compile_value(self, env_, is_command) ==
    LET r == compile(self, env_, is_command)
    IN IF r.ok THEN unnamed_value(r.v) ELSE r

\* the String arms taking every string for a literal
compile_String_literal(self, is_command) ==
    IF self.quoted
    THEN LET u == unescape(self.s.string)
         IN IF u.ok THEN Ok(VD_Value(Value_String(u.v), self.s.location)) ELSE u
    ELSE Ok(VD_Value(Value_String(self.s.string), self.s.location))

\* Node::compile, the String arms (lines 180-186)
compile_String(self, is_command) ==
    IF self.quoted
    THEN LET u == unescape(self.s.string)
         IN IF u.ok THEN Ok(VD_Value(Value_String(u.v), self.s.location)) ELSE u
    ELSE IF is_command
         THEN Ok(VD_Identifier(self.s))
         ELSE Ok(VD_Value(Value_String(self.s.string), self.s.location))

\* the Assignment arm accepting a quoted String as the name too
compile_Assignment_anyString(self, env_) ==
    IF self.op = "="
    THEN IF self.target.kind \in {"Identifier", "String"}
         THEN LET t == self.target.s
                  v == compile_value(self.value, env_, FALSE)
              IN IF v.ok
                 THEN Ok(ArgumentDefinition_named_with_style(
                            t, self.style, propose_name(t, v.v)))
                 ELSE v
         ELSE ErrGot("Invalid left side in named argument. Expected a string or identifier",
                     type_name(self.target))
    ELSE Err("Invalid assignment operator")

\* Node::compile, the Assignment arm (lines 139-151)
compile_Assignment(self, env_) ==
    IF self.op = "="
    THEN IF \/ self.target.kind = "Identifier"
            \/ (self.target.kind = "String" /\ ~self.target.quoted)
         THEN LET t == self.target.s
                  v == compile_value(self.value, env_, FALSE)
              IN IF v.ok
                 THEN Ok(ArgumentDefinition_named_with_style(
                            t, self.style, propose_name(t, v.v)))
                 ELSE v
         ELSE ErrGot("Invalid left side in named argument. Expected a string or identifier",
                     type_name(self.target))
    ELSE Err("Invalid assignment operator")

\* Node::compile, the GetItem arm (lines 153-158)
compile_GetItem(self, env_) ==
    LET sc == compile_as_special_command(self, env_)
    IN IF ~sc.ok THEN sc
       ELSE IF ~sc.v.some THEN Panic
       ELSE Ok(VD_JobDefinition(
                 Job_new(<<sc.v.inv>>, union(location(self.a), location(self.b)))))

\* Node::compile, the Unary arm (lines 160-172)
compile_Unary(self, env_) ==
    IF self.uop.string = <<"@">>
    THEN LET v == compile_value(self.arg, env_, FALSE)
         IN IF v.ok THEN Ok(ArgumentDefinition_list(v.v)) ELSE v
    ELSE IF self.uop.string = <<"@", "@">>
    THEN LET v == compile_value(self.arg, env_, FALSE)
         IN IF v.ok THEN Ok(ArgumentDefinition_dict(v.v)) ELSE v
    ELSE Err("Unknown operator")

\* Node::compile, the Closure arm (lines 203-215)
compile_Closure(self) ==
    LET p == IF self.params.given THEN Parameters_generate(self.params.list)
             ELSE Ok(<<>>)
        c == JobList_compile(self.j)
    IN IF ~p.ok THEN p
       ELSE IF ~c.ok THEN c
       ELSE Ok(VD_ClosureDefinition(
                 NoName,
                 IF self.params.given THEN [given |-> TRUE, list |-> p.v]
                 ELSE [given |-> FALSE],
                 c.v, self.j.location))

\* wraps the value definition of an arm into ArgumentDefinition::unnamed
Unnamed(r) == IF r.ok THEN Ok(ArgumentDefinition_unnamed(r.v)) ELSE r

\* Node::compile (lines 137-224)
compile(self, env_, is_command) ==
    CASE self.kind = "Assignment" -> compile_Assignment(self, env_)
      [] self.kind = "GetItem" -> Unnamed(compile_GetItem(self, env_))
      [] self.kind = "Unary" -> compile_Unary(self, env_)
      [] self.kind = "Identifier" -> Unnamed(Ok(VD_Identifier(self.s)))
      [] self.kind = "Regex" ->
           LET re == Regex_new(self.s.string)
           IN IF re.ok THEN Unnamed(Ok(VD_Value(re.v, self.s.location))) ELSE re
      [] self.kind = "String" -> Unnamed(compile_String(self, is_command))
      [] self.kind = "Integer" ->
           LET i == parse_i128(Remove(self.s.string, "_"))
           IN IF i.ok THEN Unnamed(Ok(VD_Value(Value_Integer(i.v), self.s.location)))
              ELSE i
      [] self.kind = "Float" ->
           LET f == parse_f64(Remove(self.s.string, "_"))
           IN IF f.ok
              THEN Unnamed(Ok(VD_Value(Value_Float(f.v.mant, f.v.scale), self.s.location)))
              ELSE f
      [] self.kind = "GetAttr" ->
           LET b == compile_value(self.p, env_, is_command)
           IN IF b.ok THEN Unnamed(Ok(VD_GetAttr(b.v, self.n))) ELSE b
      [] self.kind = "Substitution" ->
           LET j == Job_compile(self.j)
           IN IF j.ok THEN Unnamed(Ok(VD_JobDefinition(j.v))) ELSE j
      [] self.kind = "Closure" -> Unnamed(compile_Closure(self))
      [] self.kind = "Glob" ->
           Unnamed(Ok(VD_Value(Value_Glob(self.s.string), self.s.location)))
      [] self.kind = "File" ->
           IF self.quoted
           THEN LET u == unescape(self.s.string)
                IN IF u.ok THEN Unnamed(Ok(VD_Value(Value_File(u.v), self.s.location)))
                   ELSE u
           ELSE Unnamed(Ok(VD_Value(Value_File(self.s.string), self.s.location)))

\* Node::function_invocation (lines 309-318)
function_invocation(function, l, args) ==
    Ok(Some(CommandInvocation_new(VD_Value(function, l), args)))

\* Node::method_invocation (lines 320-334)
method_invocation(self, mname, args, env_, as_command) ==
    LET b == compile_value(self, env_, as_command)
    IN IF b.ok THEN Ok(Some(CommandInvocation_new(VD_GetAttr(b.v, mname), args)))
       ELSE b

\* the Identifier arms passing the value as an unnamed argument
assign_variable_unnamed(t, path, value, env_) ==
    LET cmd == global_static_cmd(env_, path)
        v == compile_value(value, env_, FALSE)
    IN IF ~cmd.ok THEN cmd
       ELSE IF ~v.ok THEN v
       ELSE function_invocation(
              cmd.v, t.location, <<ArgumentDefinition_unnamed(propose_name(t, v.v))>>)

\* the arms of compile_standalone_assignment with an Identifier target
\* (lines 234-241 and 267-274): global_static_cmd is looked up first
assign_variable(t, path, value, env_) ==
    LET cmd == global_static_cmd(env_, path)
        v == compile_value(value, env_, FALSE)
    IN IF ~cmd.ok THEN cmd
       ELSE IF ~v.ok THEN v
       ELSE function_invocation(
              cmd.v, t.location,
              <<ArgumentDefinition_named(t, propose_name(t, v.v))>>)

\* Node::compile_standalone_assignment (lines 226-279)
compile_standalone_assignment(target, op, value, env_) ==
    IF op = "="
    THEN CASE target.kind = "Identifier" ->
                assign_variable(target.s, <<"global", "var", "set">>, value, env_)
           [] target.kind = "GetItem" ->
                LET k == compile_value(target.b, env_, FALSE)
                    v == compile_value(value, env_, FALSE)
                IN IF ~k.ok THEN k
                   ELSE IF ~v.ok THEN v
                   ELSE method_invocation(
                          target.a,
                          TrackedString_new(SETITEM, location(target.b)),
                          <<ArgumentDefinition_unnamed(k.v), ArgumentDefinition_unnamed(v.v)>>,
                          env_, TRUE)
           [] target.kind = "GetAttr" ->
                LET v == compile_value(value, env_, FALSE)
                IN IF ~v.ok THEN v
                   ELSE method_invocation(
                          target.p,
                          TrackedString_new(SETATTR, target.n.location),
                          <<ArgumentDefinition_unnamed(
                              VD_Value(Value_String(target.n.string), target.n.location)),
                            ArgumentDefinition_unnamed(v.v)>>,
                          env_, TRUE)
           [] OTHER -> Err("Invalid left side in assignment")
    ELSE IF op = ":="
    THEN IF target.kind = "Identifier"
         THEN assign_variable(target.s, <<"global", "var", "let">>, value, env_)
         ELSE Err("Invalid left side in declaration")
    ELSE Err("Unknown assignment operator")

\* compile_as_special_command with GetItem among the plain nodes
compile_as_special_command_plainGetItem(self, env_) ==
    CASE self.kind = "Assignment" ->
           compile_standalone_assignment(self.target, self.op, self.value, env_)
      [] self.kind = "Unary" ->
           IF self.uop.string \in {<<"@">>, <<"@", "@">>}
           THEN Ok(NoInvocation)
           ELSE Err("Unknown operator")
      [] OTHER -> Ok(NoInvocation)

\* Node::compile_as_special_command (lines 281-307)
compile_as_special_command(self, env_) ==
    CASE self.kind = "Assignment" ->
           compile_standalone_assignment(self.target, self.op, self.value, env_)
      [] self.kind = "GetItem" ->
           LET k == compile_argument(self.b, env_)
           IN IF ~k.ok THEN k
              ELSE method_invocation(
                     self.a, TrackedString_new(GETITEM, location(self.b)),
                     <<k.v>>, env_, TRUE)
      [] self.kind = "Unary" ->
           IF self.uop.string \in {<<"@">>, <<"@", "@">>}
           THEN Ok(NoInvocation)
           ELSE Err("Unknown operator")
      [] OTHER -> Ok(NoInvocation)

(***************************************************************************)
(* The nodes compiled: every token kind at every location, and the         *)
(* compound nodes over them.                                               *)
(***************************************************************************)
Locs == {l \in [start : 0..MaxPos, end : 0..MaxPos] : l.start < l.end}

TS(texts) == {TrackedString_new(t, l) : t \in texts, l \in Locs}

JobNodes ==
    {[commands |-> <<"cmd">>, location |-> l, compiles |-> c] : l \in Locs, c \in BOOLEAN}
JobListNodes ==
    {[jobs |-> <<"job">>, location |-> l, compiles |-> c] : l \in Locs, c \in BOOLEAN}
ParameterLists ==
    {[given |-> FALSE]} \cup
    {[given |-> TRUE, list |-> <<[name |-> <<"x">>, span |-> l, generates |-> g]>>] :
        l \in Locs, g \in BOOLEAN}

Words == {Identifier(s) : s \in TS({<<"a">>})}
         \cup {String(s, FALSE) : s \in TS({<<"a">>})}
Quoted == {String(s, TRUE) : s \in TS({<<"a">>, <<"\\", "n">>, <<"a", "\\">>})}
Literals ==
    {Glob(s) : s \in TS({<<"*">>})}
    \cup {Regex(s) : s \in TS({<<"a">>, <<"(">>})}
    \cup {File(s, q) : s \in TS({<<"f">>}), q \in BOOLEAN}
    \cup {Integer(s) : s \in TS({<<"1", "_", "0">>, <<"_">>})}
    \cup {Float(s) : s \in TS({<<"1", "_", "0", ".", "5", "0">>, <<".">>})}
Blocks ==
    {Substitution(j) : j \in JobNodes}
    \cup {c \in {Closure(p, j) : p \in ParameterLists, j \in JobListNodes} :
             \* explicit parameters stand before the body
             c.params.given => c.params.list[1].span.end <= c.j.location.start}
Tokens == Words \cup Quoted \cup Literals \cup Blocks

\* a few nodes of each behaviour, for the inner positions of compound nodes
Inner ==
    Words
    \cup {Regex(s) : s \in TS({<<"(">>})}
    \cup {Integer(s) : s \in TS({<<"1", "_", "0">>})}

Styles == {"None", "Single"}
AssignOps == {"=", ":=", "+="}
UnaryOps == TS({<<"@">>, <<"@", "@">>, <<"!">>})

Accesses ==
    {GetAttr(p, n) : p \in Inner, n \in TS({<<"m">>})}
    \cup {GetItem(a, b) : a \in Inner, b \in Inner}
Splats == {Unary(o, a) : o \in UnaryOps, a \in Words}
FirstLoc == Location(0, 1)
\* the nodes of S whose tokens all lie at the first location
First(S) == {n \in S : location(n) = FirstLoc}
Values ==
    First(Tokens)
    \cup {Assignment(t, "None", "=", v) : t \in First(Words), v \in First(Words)}
    \cup First(Splats)
Assignments ==
    {Assignment(t, st, o, v) :
        t \in First(Tokens \cup Accesses \cup Splats),
        st \in Styles, o \in AssignOps, v \in Values}
    \cup {Assignment(t, "None", "=", v) : t \in Words, v \in Words}
Nested ==
    {GetAttr(p, n) : p \in First(Accesses \cup Quoted \cup Splats), n \in TS({<<"m">>})}
    \cup {GetItem(a, b) : a \in First(Accesses), b \in Values}
    \cup {GetItem(a, b) : a \in Tokens \cup Splats,  b \in First(Inner)}

Nodes == Tokens \cup Accesses \cup Splats \cup Assignments \cup Nested

Scopes == SUBSET {<<"global", "var", "set">>, <<"global", "var", "let">>}

InitAst ==
    /\ node \in Nodes
    /\ scope \in Scopes
    /\ asCommand = NotRun
    /\ asArgument = NotRun
    /\ special = NotRun
    /\ located = NotRun
    /\ IdleFor
    /\ IdleType
    /\ IdleComp
    /\ IdleParse
    /\ IdleScope

Ran(r) == [run |-> TRUE, res |-> r]

CompileCommand ==
    /\ ~asCommand.run
    /\ asCommand' = Ran(compile_command(node, scope))
    /\ UNCHANGED <<node, scope, asArgument, special, located>>

CompileArgument ==
    /\ ~asArgument.run
    /\ asArgument' = Ran(compile_argument(node, scope))
    /\ UNCHANGED <<node, scope, asCommand, special, located>>

CompileAsSpecialCommand ==
    /\ ~special.run
    /\ special' = Ran(compile_as_special_command(node, scope))
    /\ UNCHANGED <<node, scope, asCommand, asArgument, located>>

NextAst ==
    \/ CompileCommand /\ UNCHANGED <<forVars, typeVars, compVars, parseVars, scopeVars>>
    \/ CompileArgument /\ UNCHANGED <<forVars, typeVars, compVars, parseVars, scopeVars>>
    \/ CompileAsSpecialCommand /\ UNCHANGED <<forVars, typeVars, compVars, parseVars, scopeVars>>

SpecAst == InitAst /\ [][NextAst]_vars

\* the spans of the tokens a node is made of: its tracked strings, the
\* tokens of its children, the span of its job and its explicit parameters
RECURSIVE tokens(_)
tokens(n) ==
    CASE n.kind \in TokenKinds -> {n.s.location}
      [] n.kind = "Assignment" -> tokens(n.target) \cup tokens(n.value)
      [] n.kind = "Unary" -> {n.uop.location} \cup tokens(n.arg)
      [] n.kind = "GetItem" -> tokens(n.a) \cup tokens(n.b)
      [] n.kind = "GetAttr" -> tokens(n.p) \cup {n.n.location}
      [] n.kind = "Substitution" -> {n.j.location}
      [] n.kind = "Closure" ->
           {n.j.location} \cup
           (IF n.params.given
            THEN {n.params.list[k].span : k \in 1..Len(n.params.list)}
            ELSE {})

\* the smallest span covering every span of S
Cover(S) ==
    Location(CHOOSE a \in {l.start : l \in S} : \A l \in S : a <= l.start,
             CHOOSE b \in {l.end : l \in S} : \A l \in S : b >= l.end)

\* a parsed node whose location is asked for
InitLoc ==
    /\ node \in Nodes
    /\ scope = {}
    /\ asCommand = NotRun
    /\ asArgument = NotRun
    /\ special = NotRun
    /\ located = NotRun
    /\ IdleFor
    /\ IdleType
    /\ IdleComp
    /\ IdleParse
    /\ IdleScope

\* node.location()
NodeLocation ==
    /\ ~located.run
    /\ located' = Ran(location(node))
    /\ UNCHANGED <<node, scope, asCommand, asArgument, special>>

NextLoc == NodeLocation /\ UNCHANGED <<forVars, typeVars, compVars, parseVars, scopeVars>>

SpecLoc == InitLoc /\ [][NextLoc]_vars

(***************************************************************************)
(* The value types, lang/value/value_type.rs, and their constructors in    *)
(* the type namespace, lib/type.rs.                                        *)
(***************************************************************************)
\* enum ValueType: the variants with parameters
ValueType_List(l) == [t |-> "List", elem |-> l]
ValueType_Dict(k, v) == [t |-> "Dict", key |-> k, val |-> v]
ValueType_Struct(r) == [t |-> "Struct", cols |-> r]
ValueType_Table(r) == [t |-> "Table", cols |-> r]
ValueType_TableStream(o) == [t |-> "TableStream", cols |-> o]

PlainTypes ==
    {"String", "Integer", "Time", "Duration", "Field", "Glob", "Regex", "Command",
     "File", "Scope", "Float", "Empty", "Any", "Binary", "Type", "Bool"}

RECURSIVE materialize(_)

\* ColumnType::materialize: materialize applied to each column's type
ColumnType_materialize(cols) ==
    [c \in 1..Len(cols) |-> ColumnType(cols[c].name, materialize(cols[c].cell_type))]

\* materialize whose TableStream arm keeps the columns as they are
materialize_shallowStream(self) ==
    CASE self.t \in PlainTypes -> self
      [] self.t = "BinaryStream" -> ValueType("Binary")
      [] self.t = "TableStream" -> ValueType_Table(self.cols)
      [] self.t = "Table" -> ValueType_Table(ColumnType_materialize(self.cols))
      [] self.t = "Struct" -> ValueType_Struct(ColumnType_materialize(self.cols))
      [] self.t = "List" -> ValueType_List(materialize(self.elem))
      [] self.t = "Dict" -> ValueType_Dict(materialize(self.key), materialize(self.val))

\* ValueType::materialize (lines 80-105)
materialize(self) ==
    CASE self.t \in PlainTypes -> self
      [] self.t = "BinaryStream" -> ValueType("Binary")
      [] self.t = "TableStream" -> ValueType_Table(ColumnType_materialize(self.cols))
      [] self.t = "Table" -> ValueType_Table(ColumnType_materialize(self.cols))
      [] self.t = "Struct" -> ValueType_Struct(ColumnType_materialize(self.cols))
      [] self.t = "List" -> ValueType_List(materialize(self.elem))
      [] self.t = "Dict" -> ValueType_Dict(materialize(self.key), materialize(self.val))

\* the nesting depth of a type
RECURSIVE TypeDepth(_)
SetMax(S) == CHOOSE m \in S : \A x \in S : x <= m
TypeDepth(t) ==
    CASE t.t \in PlainTypes \cup {"BinaryStream"} -> 0
      [] t.t \in {"TableStream", "Table", "Struct"} ->
           1 + SetMax({0} \cup {TypeDepth(t.cols[c].cell_type) : c \in 1..Len(t.cols)})
      [] t.t = "List" -> 1 + TypeDepth(t.elem)
      [] t.t = "Dict" -> 1 + Max(TypeDepth(t.key), TypeDepth(t.val))

\* the types given beside ty to a constructor with several arguments
OtherTypes == {ValueType("BinaryStream")}

\* parse_column_types: the columns of the named type arguments, ty among them
ColumnLists ==
    UNION {{[c \in 1..k |-> ColumnType(ColNames[c], IF c = at THEN ty ELSE o)] :
               at \in 1..k, o \in OtherTypes} : k \in 1..MaxCols}

InitType ==
    /\ ty \in {ValueType(t) : t \in PlainTypes \cup {"BinaryStream"}}
             \cup {ValueType_Struct(<<>>), ValueType_Table(<<>>), ValueType_TableStream(<<>>)}
    /\ mat = NotRun
    /\ mat2 = NotRun
    /\ IdleFor
    /\ IdleAst
    /\ IdleComp
    /\ IdleParse
    /\ IdleScope

Building == ~mat.run /\ TypeDepth(ty) < MaxDepth

\* type:list (lib/type.rs lines 15-18)
list ==
    /\ Building
    /\ ty' = ValueType_List(ty)
    /\ UNCHANGED <<mat, mat2>>

\* type:dict (lib/type.rs lines 20-28)
dict ==
    /\ Building
    /\ \E o \in OtherTypes : ty' \in {ValueType_Dict(ty, o), ValueType_Dict(o, ty)}
    /\ UNCHANGED <<mat, mat2>>

\* type:struct (lib/type.rs lines 43-45)
struct ==
    /\ Building
    /\ \E r \in ColumnLists : ty' = ValueType_Struct(r)
    /\ UNCHANGED <<mat, mat2>>

\* type:table (lib/type.rs lines 47-49)
table ==
    /\ Building
    /\ \E r \in ColumnLists : ty' = ValueType_Table(r)
    /\ UNCHANGED <<mat, mat2>>

\* type:table_stream (lib/type.rs lines 51-53)
table_stream ==
    /\ Building
    /\ \E r \in ColumnLists : ty' = ValueType_TableStream(r)
    /\ UNCHANGED <<mat, mat2>>

\* ty.materialize()
Materialize ==
    /\ ~mat.run
    /\ mat' = Ran(materialize(ty))
    /\ UNCHANGED <<ty, mat2>>

\* the materialized type materialized again
MaterializeAgain ==
    /\ mat.run /\ ~mat2.run
    /\ mat2' = Ran(materialize(mat.res))
    /\ UNCHANGED <<ty, mat>>

NextType ==
    \/ list /\ UNCHANGED <<forVars, astVars, compVars, parseVars, scopeVars>>
    \/ dict /\ UNCHANGED <<forVars, astVars, compVars, parseVars, scopeVars>>
    \/ struct /\ UNCHANGED <<forVars, astVars, compVars, parseVars, scopeVars>>
    \/ table /\ UNCHANGED <<forVars, astVars, compVars, parseVars, scopeVars>>
    \/ table_stream /\ UNCHANGED <<forVars, astVars, compVars, parseVars, scopeVars>>
    \/ Materialize /\ UNCHANGED <<forVars, astVars, compVars, parseVars, scopeVars>>
    \/ MaterializeAgain /\ UNCHANGED <<forVars, astVars, compVars, parseVars, scopeVars>>

SpecType == InitType /\ [][NextType]_vars

(***************************************************************************)
(* Cells parsed from text, ValueType::parse.                               *)
(***************************************************************************)
Value_Field(path) == [kind |-> "Field", path |-> path]
Value_Bool(b) == [kind |-> "Bool", b |-> b]

\* str::parse::<bool>: the texts true and false
parse_bool(str) ==
    IF str = <<"t", "r", "u", "e">> THEN Ok(TRUE)
    ELSE IF str = <<"f", "a", "l", "s", "e">> THEN Ok(FALSE)
    ELSE Err("provided string was not true or false")

\* the parts of a text between the characters sep
RECURSIVE Split(_, _)
Split(str, sep) ==
    IF \A k \in 1..Len(str) : str[k] # sep THEN <<str>>
    ELSE LET k == CHOOSE i \in 1..Len(str) :
                      str[i] = sep /\ \A j \in 1..(i - 1) : str[j] # sep
         IN <<SubSeq(str, 1, k - 1)>> \o Split(SubSeq(str, k + 1, Len(str)), sep)

\* parse_name: the parts of a dotted path, none of them empty
parse_name(str) ==
    LET parts == Split(str, ".")
    IN IF \E k \in 1..Len(parts) : parts[k] = <<>> THEN [some |-> FALSE]
       ELSE [some |-> TRUE, x |-> parts]

\* ValueType::parse (lines 125-140)
parse(self, str) ==
    CASE self.t = "String" -> Ok(Value_String(str))
      [] self.t = "Integer" ->
           LET n == parse_i128(str)
           IN IF n.ok THEN Ok(Value_Integer(n.v)) ELSE n
      [] self.t = "Field" ->
           LET f == parse_name(str)
           IN IF f.some THEN Ok(Value_Field(f.x)) ELSE Err("Invalid field name")
      [] self.t = "Glob" -> Ok(Value_Glob(str))
      [] self.t = "Regex" -> Regex_new(str)
      [] self.t = "File" -> Ok(Value_String(str))
      [] self.t = "Float" ->
           LET f == parse_f64(str)
           IN IF f.ok THEN Ok(Value_Float(f.v.mant, f.v.scale)) ELSE f
      [] self.t = "Bool" ->
           LET b == parse_bool(str)
           IN IF b.ok THEN Ok(Value_Bool(b.v)) ELSE b
      [] OTHER -> Err("Failed to parse cell")

CellTypes ==
    {ValueType(t) : t \in PlainTypes \cup {"BinaryStream"}}
    \cup {ValueType_List(ValueType("Integer")), ValueType_Struct(<<>>)}

CellTexts ==
    {<<"1", "0", "0", "0", "0", "0", "0">>,
     <<"1", "_", "0", "0", "0", "_", "0", "0", "0">>,
     <<"1", "0">>, <<"1", "_", "0">>, <<"-", "1">>,
     <<"1", ".", "5">>, <<"1", "_", "0", ".", "5">>,
     <<"t", "r", "u", "e">>, <<"f", "a", "l", "s", "e">>,
     <<"a">>, <<"a", ".", "b">>, <<"(">>, <<".">>, <<"_">>, <<>>}

InitParse ==
    /\ cellType \in CellTypes
    /\ cellText \in CellTexts
    /\ cell = NotRun
    /\ IdleFor
    /\ IdleAst
    /\ IdleType
    /\ IdleComp
    /\ IdleScope

\* cellType.parse(cellText)
Parse ==
    /\ ~cell.run
    /\ cell' = Ran(parse(cellType, cellText))
    /\ UNCHANGED <<cellType, cellText>>

NextParse == Parse /\ UNCHANGED <<forVars, astVars, typeVars, compVars, scopeVars>>

SpecParse == InitParse /\ [][NextParse]_vars

(***************************************************************************)
(* The comparison namespace, lib/comp.rs.                                  *)
(***************************************************************************)
\* the float that is not a number
Value_NaN == [kind |-> "Float", nan |-> TRUE]
IsNaN(v) == v.kind = "Float" /\ "nan" \in DOMAIN v

\* Value::eq: structural, false for values of different variants
Value_eq(l, r) == l.kind = r.kind /\ ~IsNaN(l) /\ ~IsNaN(r) /\ l = r

\* the variants with an ordering
ComparableKinds == {"Integer", "String", "Float", "Bool"}

Ordering(a, b) == IF a < b THEN "Less" ELSE IF a > b THEN "Greater" ELSE "Equal"

CharRank(c) == CASE c = "a" -> 1 [] c = "b" -> 2

\* the lexicographic ordering of two texts
RECURSIVE StrOrdering(_, _)
StrOrdering(a, b) ==
    IF a = <<>> /\ b = <<>> THEN "Equal"
    ELSE IF a = <<>> THEN "Less"
    ELSE IF b = <<>> THEN "Greater"
    ELSE IF Head(a) # Head(b) THEN Ordering(CharRank(Head(a)), CharRank(Head(b)))
    ELSE StrOrdering(Tail(a), Tail(b))

\* Value::partial_cmp: an ordering within a comparable variant, None across
\* variants, for the other variants and for the float that is not a number
partial_cmp(l, r) ==
    IF l.kind # r.kind \/ l.kind \notin ComparableKinds \/ IsNaN(l) \/ IsNaN(r)
    THEN [some |-> FALSE]
    ELSE [some |-> TRUE,
          ordering |->
            CASE l.kind = "Integer" -> Ordering(l.i, r.i)
              [] l.kind = "Bool" -> Ordering(IF l.b THEN 1 ELSE 0, IF r.b THEN 1 ELSE 0)
              [] l.kind = "String" -> StrOrdering(l.s, r.s)
              [] l.kind = "Float" ->
                   Ordering(l.mant * Pow10(r.scale), r.mant * Pow10(l.scale))]

CompValues ==
    {Value_Integer(1), Value_Integer(2),
     Value_String(<<"a">>), Value_String(<<"a", "b">>),
     Value_Float(15, 1), Value_NaN,
     Value_Bool(TRUE), Value_Bool(FALSE),
     Value_Command(<<"global", "var", "set">>)}

InitComp ==
    /\ compCmd = "none"
    /\ compArgs \in SeqsUpTo(CompValues, MaxArgs)
    /\ compOutput = <<>>
    /\ compResult = "none"
    /\ IdleFor
    /\ IdleAst
    /\ IdleType
    /\ IdleParse
    /\ IdleScope

\* context.output.send(v): delivers v, or fails when the other end is gone
CompSend(v) ==
    \E sendOk \in BOOLEAN :
        IF sendOk
        THEN compOutput' = Append(compOutput, v) /\ compResult' = "ok"
        ELSE UNCHANGED compOutput /\ compResult' = "send_error"

CompError(msg) == UNCHANGED compOutput /\ compResult' = msg

\* gt, lt, lte and gte (lines 7-53), which differ in the orderings they
\* answer true to
OrderingCommand(cmd, accepted) ==
    /\ compCmd = "none"
    /\ compCmd' = cmd
    /\ UNCHANGED compArgs
    /\ IF Len(compArgs) # 2
       THEN CompError("Expected exactly two arguments")
       ELSE LET c == partial_cmp(compArgs[1], compArgs[2])
            IN IF c.some THEN CompSend(Value_Bool(c.ordering \in accepted))
               ELSE CompError("Uncomparable values")

gt == OrderingCommand("gt", {"Greater"})
lt == OrderingCommand("lt", {"Less"})
lte == OrderingCommand("lte", {"Less", "Equal"})
gte == OrderingCommand("gte", {"Greater", "Equal"})

\* eq (lines 55-62)
eq ==
    /\ compCmd = "none"
    /\ compCmd' = "eq"
    /\ UNCHANGED compArgs
    /\ IF Len(compArgs) # 2
       THEN CompError("Expected exactly two arguments")
       ELSE CompSend(Value_Bool(Value_eq(compArgs[1], compArgs[2])))

\* neq that goes through the ordering of the two values
neq_ordered == OrderingCommand("neq", {"Less", "Greater"})

\* neq (lines 64-71)
neq ==
    /\ compCmd = "none"
    /\ compCmd' = "neq"
    /\ UNCHANGED compArgs
    /\ IF Len(compArgs) # 2
       THEN CompError("Expected exactly two arguments")
       ELSE CompSend(Value_Bool(~Value_eq(compArgs[1], compArgs[2])))

\* not (lines 73-81)
not ==
    /\ compCmd = "none"
    /\ compCmd' = "not"
    /\ UNCHANGED compArgs
    /\ IF Len(compArgs) # 1
       THEN CompError("Expected exactly one argument")
       ELSE IF compArgs[1].kind = "Bool"
            THEN CompSend(Value_Bool(~compArgs[1].b))
            ELSE CompError("Expected a boolean argument")

NextComp ==
    \/ gt /\ UNCHANGED <<forVars, astVars, typeVars, parseVars, scopeVars>>
    \/ lt /\ UNCHANGED <<forVars, astVars, typeVars, parseVars, scopeVars>>
    \/ lte /\ UNCHANGED <<forVars, astVars, typeVars, parseVars, scopeVars>>
    \/ gte /\ UNCHANGED <<forVars, astVars, typeVars, parseVars, scopeVars>>
    \/ eq /\ UNCHANGED <<forVars, astVars, typeVars, parseVars, scopeVars>>
    \/ neq /\ UNCHANGED <<forVars, astVars, typeVars, parseVars, scopeVars>>
    \/ not /\ UNCHANGED <<forVars, astVars, typeVars, parseVars, scopeVars>>

SpecComp == InitComp /\ [][NextComp]_vars

(***************************************************************************)
(* The root scope and the registration of the namespaces comp and type,    *)
(* lib/comp.rs and lib/type.rs.                                            *)
(***************************************************************************)
Failed(msg, t) == [ok |-> FALSE, error |-> msg, tree |-> t]
Done(t) == [ok |-> TRUE, tree |-> t]

Bind(b, n, v) == [m \in DOMAIN b \cup {n} |-> IF m = n THEN v ELSE b[m]]

\* Scope::declare: a new binding of the frame f; fails on a read-only frame
\* and on a name the frame already binds
Scope_declare(t, f, n, v) ==
    IF t[f].readonly THEN Failed("sealed", t)
    ELSE IF n \in DOMAIN t[f].bindings THEN Failed("exists", t)
    ELSE Done([t EXCEPT ![f].bindings = Bind(@, n, v)])

\* Scope::set: assigns the nearest binding of the name, in the frame f or
\* in its parent, the root; fails on an unknown name and on a read-only frame
Scope_set(t, f, n, v) ==
    LET owner == IF n \in DOMAIN t[f].bindings THEN f ELSE "root"
    IN IF n \notin DOMAIN t[owner].bindings THEN Failed("lookup", t)
       ELSE IF t[owner].readonly THEN Failed("sealed", t)
       ELSE Done([t EXCEPT ![owner].bindings = Bind(@, n, v)])

\* Scope::readonly: seals the frame
Scope_readonly(t, f) == [t EXCEPT ![f].readonly = TRUE]

\* Scope::use: imports the frame g into the frame f
Scope_use(t, f, g) == [t EXCEPT ![f].uses = Append(@, g)]

\* Scope::create_namespace: a new frame declared in the root under its name
create_namespace(t, n) ==
    LET d == Scope_declare(t, "root", n, "scope")
    IN IF ~d.ok THEN d
       ELSE Done([d.tree EXCEPT ![n] = Frame(TRUE, NoBindings, <<>>, FALSE)])

\* env.declare(..)? for each name in turn, up to the first failure
RECURSIVE declare_each(_, _, _)
declare_each(t, f, names) ==
    IF names = <<>> THEN Done(t)
    ELSE LET d == Scope_declare(t, f, Head(names), "builtin")
         IN IF ~d.ok THEN d ELSE declare_each(d.tree, f, Tail(names))

\* the names comp::declare declares (lines 86-92)
CompNames == <<"gt", "gte", "lt", "lte", "eq", "neq", "not">>

\* the names type::declare declares (lines 58-84)
TypeNames ==
    <<"to", "of", "list", "dict", "struct", "table", "table_stream",
      "integer", "type", "text", "bool", "closure", "empty", "field", "float",
      "duration", "time", "command", "file", "glob", "regex", "env", "any",
      "binary", "binary_stream">>

InitScope ==
    /\ scopeTree = FreshRoot
    /\ registered = [ns \in Namespaces |-> "none"]
    /\ lastOp = NoOp
    /\ nops = 0
    /\ IdleFor
    /\ IdleAst
    /\ IdleType
    /\ IdleComp
    /\ IdleParse

Registered(ns, r) ==
    /\ scopeTree' = r.tree
    /\ registered' = [registered EXCEPT ![ns] = IF r.ok THEN "ok" ELSE r.error]
    /\ UNCHANGED <<lastOp, nops>>

\* comp::declare that seals the namespace before its last declaration
comp_declare_sealEarly ==
    /\ registered["comp"] = "none"
    /\ LET c == create_namespace(scopeTree, "comp")
       IN IF ~c.ok THEN Registered("comp", c)
          ELSE LET d == declare_each(Scope_use(c.tree, "root", "comp"), "comp",
                                     SubSeq(CompNames, 1, Len(CompNames) - 1))
               IN IF ~d.ok THEN Registered("comp", d)
                  ELSE Registered("comp",
                           Scope_declare(Scope_readonly(d.tree, "comp"), "comp",
                                         CompNames[Len(CompNames)], "builtin"))

\* comp::declare (lib/comp.rs lines 83-95)
comp_declare ==
    /\ registered["comp"] = "none"
    /\ LET c == create_namespace(scopeTree, "comp")
       IN IF ~c.ok THEN Registered("comp", c)
          ELSE LET d == declare_each(Scope_use(c.tree, "root", "comp"), "comp", CompNames)
               IN IF ~d.ok THEN Registered("comp", d)
                  ELSE Registered("comp", Done(Scope_readonly(d.tree, "comp")))

\* type::declare (lib/type.rs lines 55-88)
type_declare ==
    /\ registered["type"] = "none"
    /\ LET c == create_namespace(scopeTree, "type")
       IN IF ~c.ok THEN Registered("type", c)
          ELSE LET d == declare_each(c.tree, "type", TypeNames)
               IN IF ~d.ok THEN Registered("type", d)
                  ELSE Registered("type", Done(Scope_readonly(d.tree, "type")))

\* the names later operations use
UserNames == {"gt", "list", "x", "comp"}

Operated(kind, f, n, r) ==
    /\ scopeTree' = r.tree
    /\ lastOp' = [kind |-> kind, frame |-> f, name |-> n,
                  result |-> IF r.ok THEN "ok" ELSE r.error]
    /\ nops' = nops + 1
    /\ UNCHANGED registered

\* a declaration in a frame by a later command
Declare ==
    /\ nops < MaxOps
    /\ \E f \in DOMAIN scopeTree, n \in UserNames :
         /\ scopeTree[f].exists
         /\ Operated("declare", f, n, Scope_declare(scopeTree, f, n, "user"))

\* an assignment from a frame by a later command
Set ==
    /\ nops < MaxOps
    /\ \E f \in DOMAIN scopeTree, n \in UserNames :
         /\ scopeTree[f].exists
         /\ Operated("set", f, n, Scope_set(scopeTree, f, n, "assigned"))

NextScope ==
    \/ comp_declare /\ UNCHANGED <<forVars, astVars, typeVars, compVars, parseVars>>
    \/ type_declare /\ UNCHANGED <<forVars, astVars, typeVars, compVars, parseVars>>
    \/ Declare /\ UNCHANGED <<forVars, astVars, typeVars, compVars, parseVars>>
    \/ Set /\ UNCHANGED <<forVars, astVars, typeVars, compVars, parseVars>>

SpecScope == InitScope /\ [][NextScope]_vars

(***************************************************************************)
(* Properties of the iteration driver.                                     *)
(***************************************************************************)
\* some iteration's child scope has signalled stop
StopSeen == \E s \in 2..Len(scopes) : scopes[s].is_stopped

\* the value the k-th row binds: its single cell, or the Struct of the row
Bound(k) ==
    IF Len(types) = 1
    THEN rows[k][1]
    ELSE [kind |-> "Struct",
          fields |-> [c \in 1..Len(types) |->
                        [name |-> types[c].name, value |-> rows[k][c]]]]

\* C1: the body is invoked once per row read, in stream order; when `for`
\* returns success and no child scope signalled stop it has been invoked
\* exactly N times for the N rows of the stream; once a child scope is
\* stopped no further row is read and no further body invocation occurs.
C1_BodyOncePerRow ==
    /\ [](/\ Len(bodyCalls) = nread
          /\ nread <= Len(rows)
          /\ \A k \in 1..Len(bodyCalls) :
                bodyCalls[k].arguments[1].value = Bound(k)
          /\ (pc = "done" /\ result = "ok" /\ ~StopSeen)
                => Len(bodyCalls) = Len(rows))
    /\ [][StopSeen => (nread' = nread /\ bodyCalls' = bodyCalls)]_vars

C1_Witness ==
    /\ pc = "done" /\ result = "ok" /\ ~StopSeen
    /\ Len(rows) >= 2 /\ Len(bodyCalls) = Len(rows)
    /\ rows[1] # rows[2]

\* C2: a step that takes from the local receiver takes exactly the one
\* message at its head; with the iteration's scope stopped the message goes
\* to the job-level output (unless that send fails) and the loop ends,
\* otherwise it is discarded and the loop continues. So the job-level
\* output holds at most one message, and one only if an iteration stopped.
C2_ForwardOrDrain ==
    /\ [](Len(output) <= 1 /\ (output # <<>> => StopSeen))
    /\ [][(pc = "recv" /\ pc' # "recv") =>
            /\ localq # <<>> /\ localq' = Tail(localq)
            /\ IF is_stopped(scopes, env)
               THEN /\ pc' = "done"
                    /\ \/ output' = Append(output, Head(localq)) /\ result' = "ok"
                       \/ output' = output /\ result' = "send_error"
               ELSE output' = output /\ pc' = "read" /\ result' = result]_vars

C2_Witness ==
    /\ pc = "done" /\ result = "ok"
    /\ Len(output) = 1 /\ Len(bodyCalls) = 2 /\ localq = <<>>

\* C3: when the stream's reader returns end-of-stream or an error other than
\* closed-remote the loop has ended and the command has returned success; an
\* empty input stream gives no body invocation, no output, and success.
C3_ReaderErrorEndsLoop ==
    /\ lastRead \in ReadErrors \ {"closed_remote"} => (pc = "done" /\ result = "ok")
    /\ (rows = <<>> /\ pc = "done" /\ cfg.parsed /\ Len(cfg.iterator) = 1)
          => (bodyCalls = <<>> /\ output = <<>> /\ result = "ok")

C3_Witness ==
    /\ rows = <<>> /\ lastRead = "io_error" /\ pc = "done" /\ result = "ok"

\* C4: a call without exactly two arguments, or whose parsed signature has
\* not exactly one iterator binding, returns an argument error with no row
\* read, no child scope created, no body invocation and no output.
C4_ArgumentChecks ==
    (pc # "start" /\ (Len(arguments) # 2 \/ (cfg.parsed /\ Len(cfg.iterator) # 1)))
      => /\ pc = "done" /\ result = "argument_error"
         /\ nread = 0 /\ lastRead = None
         /\ Len(scopes) = 1
         /\ bodyCalls = <<>>
         /\ localq = <<>> /\ output = <<>>

C4_Witness ==
    /\ pc = "done" /\ result = "argument_error"
    /\ Len(arguments) = 2 /\ cfg.parsed /\ Len(cfg.iterator) = 2

\* C5: every body invocation gets exactly one argument, named with the
\* iterator binding's key, in a fresh child scope of the caller's scope that
\* is a loop frame; its value is the row's single cell when the schema has
\* one column, else the Struct of the row's cells under the schema's names.
C5_BodyArgument ==
    \A k \in 1..Len(bodyCalls) :
      LET c == bodyCalls[k] IN
        /\ Len(c.arguments) = 1
        /\ c.arguments[1].name = cfg.iterator[1].name
        /\ c.arguments[1].name # None
        /\ c.arguments[1].value = Bound(k)
        /\ c.scope = k + 1
        /\ scopes[c.scope].parent = 1
        /\ scopes[c.scope].is_loop

C5_Witness ==
    /\ Len(types) = 0 /\ Len(bodyCalls) = 2
    /\ bodyCalls[2].arguments[1].value = [kind |-> "Struct", fields |-> <<>>]


\* C15: on a finite input stream, with body invocations that all return,
\* r#for eventually returns, also when a body invocation sends nothing on
\* its output.
C15_ForReturns == <>(pc = "done")

\* C16: the message r#for forwards when it stops was sent by the body
\* invocation of the iteration that stopped, never by an earlier one; the
\* local pipe is empty when an iteration starts.
C16_ForwardsStoppingIteration ==
    /\ \A k \in 1..Len(output) : output[k].iter = nread
    /\ pc = "read" => localq = <<>>

\* C17: when a body invocation returns an error, r#for returns that error
\* at once: it reads no further row, invokes no further body, does not
\* read the local receiver and sends nothing to the output.
C17_BodyErrorReturned ==
    /\ [](bodyResult = "Err" => (pc = "done" /\ result = "body_error" /\ output = <<>>))
    /\ [][(bodyResult' = "Err") =>
            /\ nread' = nread
            /\ bodyCalls' = bodyCalls
            /\ localq' = localq
            /\ output' = output]_vars

C17_Witness ==
    /\ bodyResult = "Err" /\ result = "body_error"
    /\ nread = 1 /\ Len(rows) = 2
    /\ localq # <<>> /\ is_stopped(scopes, env)

(***************************************************************************)
(* Properties of the compiler.                                             *)
(***************************************************************************)
\* the value definition n compiles to with the command-position flag c
Compiled(n, c) == compile(n, scope, c).v.value
\* n compiles, with the flag c, to an argument without a name
CompilesToValue(n, c) ==
    LET r == compile(n, scope, c) IN r.ok /\ r.v.arg # "named"
HasCmd(path) == path \in scope
\* the result is the panic of an unwrap
IsPanic(r) == ~r.ok /\ r.panic

\* C6: as a special command an Assignment is, for `=` and an Identifier
\* target, an invocation of global:var:set with one argument named after
\* the target; for `=` and GetItem(c, k) the call c.__setitem__(k, value),
\* two unnamed arguments in that order; for `=` and GetAttr(c, a) the call
\* c.__setattr__("a", value), the attribute name first as a string literal;
\* for `:=` and an Identifier target an invocation of global:var:let with
\* one named argument; any other target or operator is an error without an
\* invocation. The invocation is returned when the parts compile.
C6_StandaloneAssignment ==
    (node.kind = "Assignment" /\ special.run) =>
      LET r == special.res
          t == node.target
          isVar == t.kind = "Identifier" /\ node.op \in {"=", ":="}
          path == <<"global", "var", IF node.op = "=" THEN "set" ELSE "let">>
      IN /\ ~IsPanic(r)
         /\ r.ok => r.v.some
         /\ isVar =>
              /\ r.ok <=> (HasCmd(path) /\ CompilesToValue(node.value, FALSE))
              /\ r.ok =>
                   /\ r.v.inv.command = VD_Value(Value_Command(path), t.s.location)
                   /\ Len(r.v.inv.arguments) = 1
                   /\ r.v.inv.arguments[1].arg = "named"
                   /\ r.v.inv.arguments[1].name = t.s
                   /\ r.v.inv.arguments[1].value = propose_name(t.s, Compiled(node.value, FALSE))
         /\ (node.op = "=" /\ t.kind = "GetItem") =>
              /\ r.ok <=> /\ CompilesToValue(t.b, FALSE)
                          /\ CompilesToValue(node.value, FALSE)
                          /\ CompilesToValue(t.a, TRUE)
              /\ r.ok =>
                   /\ r.v.inv.command.def = "GetAttr"
                   /\ r.v.inv.command.inner = Compiled(t.a, TRUE)
                   /\ r.v.inv.command.n.string = SETITEM
                   /\ r.v.inv.arguments =
                        <<[arg |-> "unnamed", value |-> Compiled(t.b, FALSE)],
                          [arg |-> "unnamed", value |-> Compiled(node.value, FALSE)]>>
         /\ (node.op = "=" /\ t.kind = "GetAttr") =>
              /\ r.ok <=> /\ CompilesToValue(node.value, FALSE)
                          /\ CompilesToValue(t.p, TRUE)
              /\ r.ok =>
                   /\ r.v.inv.command.def = "GetAttr"
                   /\ r.v.inv.command.inner = Compiled(t.p, TRUE)
                   /\ r.v.inv.command.n.string = SETATTR
                   /\ r.v.inv.arguments =
                        <<[arg |-> "unnamed",
                           value |-> [def |-> "Value",
                                      value |-> [kind |-> "String", s |-> t.n.string],
                                      location |-> t.n.location]],
                          [arg |-> "unnamed", value |-> Compiled(node.value, FALSE)]>>
         /\ ~(isVar \/ (node.op = "=" /\ t.kind \in {"GetItem", "GetAttr"})) => ~r.ok

C6_Witness ==
    /\ node.kind = "Assignment" /\ node.op = "=" /\ node.target.kind = "GetItem"
    /\ node.target.b.kind = "Integer" /\ node.value.kind = "Closure"
    /\ special.run /\ special.res.ok

\* C7: an unquoted String compiles to ValueDefinition::Identifier of the word
\* in command position and to the literal Value::String of the same text
\* otherwise; a quoted String compiles to the escape-decoded Value::String
\* in both positions; GetAttr compiles its base with its own flag.
C7_CommandPosition ==
    LET c == asCommand.res
        a == asArgument.res
    IN /\ (node.kind = "String" /\ ~node.quoted /\ asCommand.run) =>
            c = Ok([arg |-> "unnamed", value |-> [def |-> "Identifier", s |-> node.s]])
       /\ (node.kind = "String" /\ ~node.quoted /\ asArgument.run) =>
            a = Ok([arg |-> "unnamed",
                    value |-> [def |-> "Value",
                               value |-> [kind |-> "String", s |-> node.s.string],
                               location |-> node.s.location]])
       /\ (node.kind = "String" /\ node.quoted /\ asCommand.run /\ asArgument.run) =>
            /\ c = a
            /\ c.ok <=> unescape(node.s.string).ok
            /\ c.ok => /\ c.v.arg = "unnamed" /\ c.v.value.def = "Value"
                       /\ c.v.value.value.kind = "String"
                       /\ c.v.value.value.s = unescape(node.s.string).v
                       /\ (node.s.string = <<"\\", "n">> => c.v.value.value.s = <<"\n">>)
       /\ (node.kind = "GetAttr" /\ asCommand.run) =>
            /\ c.ok <=> CompilesToValue(node.p, TRUE)
            /\ c.ok => c.v.value = [def |-> "GetAttr", inner |-> Compiled(node.p, TRUE),
                                    n |-> node.n]
            /\ (node.p.kind = "String" /\ ~node.p.quoted) =>
                 c.ok /\ c.v.value.inner = [def |-> "Identifier", s |-> node.p.s]
       /\ (node.kind = "GetAttr" /\ asArgument.run) =>
            /\ a.ok <=> CompilesToValue(node.p, FALSE)
            /\ a.ok => a.v.value = [def |-> "GetAttr", inner |-> Compiled(node.p, FALSE),
                                    n |-> node.n]
            /\ (node.p.kind = "String" /\ ~node.p.quoted) =>
                 a.ok /\ a.v.value.inner.def = "Value"
                      /\ a.v.value.inner.value = [kind |-> "String", s |-> node.p.s.string]

C7_Witness ==
    /\ node.kind = "GetAttr" /\ node.p.kind = "String" /\ ~node.p.quoted
    /\ asCommand.run /\ asArgument.run
    /\ asCommand.res.ok /\ asArgument.res.ok
    /\ asCommand.res # asArgument.res

\* C8: an Assignment with operator `=` compiles, in either position, to a
\* named ArgumentDefinition with the target's text as name and the node's
\* switch style when the target is an Identifier or an unquoted String (and
\* the value compiles); with any other target it fails with the invalid
\* left side error; with any other operator it fails with the operator error.
C8_Named(r) ==
    LET t == node.target
        nameable == t.kind = "Identifier" \/ (t.kind = "String" /\ ~t.quoted)
    IN /\ ~IsPanic(r)
       /\ (node.op = "=" /\ nameable) =>
            /\ r.ok <=> CompilesToValue(node.value, FALSE)
            /\ r.ok => /\ r.v.arg = "named"
                       /\ r.v.name = t.s
                       /\ r.v.style = node.style
                       /\ r.v.value = propose_name(t.s, Compiled(node.value, FALSE))
       /\ (node.op = "=" /\ ~nameable) =>
            /\ ~r.ok
            /\ r.error = "Invalid left side in named argument. Expected a string or identifier"
            /\ r.got = type_name(t)
       /\ node.op # "=" => (~r.ok /\ r.error = "Invalid assignment operator")

C8_NamedArgument ==
    /\ (node.kind = "Assignment" /\ asArgument.run) => C8_Named(asArgument.res)
    /\ (node.kind = "Assignment" /\ asCommand.run) => C8_Named(asCommand.res)

C8_Witness ==
    /\ node.kind = "Assignment" /\ node.op = "=" /\ node.style = "Single"
    /\ node.target.kind = "String" /\ node.value.kind = "Closure"
    /\ asArgument.run /\ asArgument.res.ok

\* C9: a GetItem(base, key) compiles, in either position, to an error or to
\* a JobDefinition whose job has exactly one invocation, of `__getitem__`
\* looked up on the compiled base with the compiled key as its single
\* argument, and whose location is the union of the base's and the key's;
\* the unwrap of the special command never meets None.
C9_Job(r) ==
    /\ ~IsPanic(r)
    /\ r.ok <=> (compile(node.b, scope, FALSE).ok /\ CompilesToValue(node.a, TRUE))
    /\ r.ok =>
         /\ r.v.arg = "unnamed"
         /\ r.v.value.def = "JobDefinition"
         /\ Len(r.v.value.job.commands) = 1
         /\ r.v.value.job.commands[1].command.def = "GetAttr"
         /\ r.v.value.job.commands[1].command.n.string = GETITEM
         /\ r.v.value.job.commands[1].command.inner = Compiled(node.a, TRUE)
         /\ r.v.value.job.commands[1].arguments = <<compile(node.b, scope, FALSE).v>>
         /\ r.v.value.job.location.start = Min(location(node.a).start, location(node.b).start)
         /\ r.v.value.job.location.end = Max(location(node.a).end, location(node.b).end)

C9_GetItemJob ==
    /\ (node.kind = "GetItem" /\ asArgument.run) => C9_Job(asArgument.res)
    /\ (node.kind = "GetItem" /\ asCommand.run) => C9_Job(asCommand.res)
    /\ (node.kind = "GetItem" /\ special.run /\ special.res.ok) => special.res.v.some

C9_Witness ==
    /\ node.kind = "GetItem" /\ node.a.kind = "String" /\ node.b.kind = "Integer"
    /\ location(node.a) = Location(1, 2) /\ location(node.b) = Location(0, 1)
    /\ asArgument.run /\ asArgument.res.ok
    /\ asArgument.res.v.value.job.location = Location(0, 2)
    /\ special.run /\ special.res.ok

(***************************************************************************)
(* Properties of the value types.                                          *)
(***************************************************************************)
\* C10: materializing a materialized type changes nothing:
\* materialize(materialize(t)) = materialize(t) for every type t.
C10_MaterializeIdempotent ==
    mat2.run => mat2.res = mat.res

C10_Witness ==
    /\ mat2.run /\ mat2.res = mat.res /\ mat.res # ty
    /\ ty.t = "List" /\ ty.elem.t = "TableStream"
    /\ Len(ty.elem.cols) = 2 /\ ty.elem.cols[2].cell_type.t = "BinaryStream"

(***************************************************************************)
(* Properties of the locations.                                            *)
(***************************************************************************)
\* C11: the location of a node of any variant is the smallest span covering
\* every token the node is made of, the explicit parameters of a Closure
\* included.
C11_LocationCoversTokens ==
    located.run => located.res = Cover(tokens(node))

(***************************************************************************)
(* Properties of the comparisons.                                          *)
(***************************************************************************)
CompDone == compCmd # "none"
TwoArgs == Len(compArgs) = 2
\* the call sent exactly the value v: it is the one value delivered, unless
\* the send itself failed
Sent(v) ==
    \/ compResult = "ok" /\ compOutput = <<v>>
    \/ compResult = "send_error" /\ compOutput = <<>>
Unordered(l, r) ==
    l.kind # r.kind \/ l.kind \notin ComparableKinds \/ IsNaN(l) \/ IsNaN(r)

\* C12: on two arguments eq and neq never fail on the values: they send one
\* Bool, false for eq and true for neq on values of different variants, and
\* neq sends the negation of what eq sends; gt, lt, gte and lte fail with
\* an error and send nothing when the two values have no ordering (such as
\* values of different variants) and send exactly one Bool otherwise.
C12_EqualityTotalOrderingPartial ==
    (CompDone /\ TwoArgs) =>
      LET l == compArgs[1]
          r == compArgs[2]
      IN /\ compCmd = "eq" =>
              /\ Sent(Value_Bool(Value_eq(l, r)))
              /\ l.kind # r.kind => Sent(Value_Bool(FALSE))
              /\ (l = r /\ ~IsNaN(l)) => Sent(Value_Bool(TRUE))
         /\ compCmd = "neq" =>
              /\ Sent(Value_Bool(~Value_eq(l, r)))
              /\ l.kind # r.kind => Sent(Value_Bool(TRUE))
              /\ (l = r /\ ~IsNaN(l)) => Sent(Value_Bool(FALSE))
         /\ compCmd \in {"gt", "lt", "gte", "lte"} =>
              IF Unordered(l, r)
              THEN compResult = "Uncomparable values" /\ compOutput = <<>>
              ELSE \E b \in BOOLEAN : Sent(Value_Bool(b))

C12_Witness ==
    /\ compCmd = "neq" /\ TwoArgs
    /\ compArgs[1].kind = "Integer" /\ compArgs[2].kind = "String"
    /\ compResult = "ok" /\ compOutput = <<Value_Bool(TRUE)>>

(***************************************************************************)
(* Properties of the parsed cells.                                         *)
(***************************************************************************)
OneMillion == <<"1", "_", "0", "0", "0", "_", "0", "0", "0">>

\* C13: ValueType::parse strips the underscores of the text before it
\* parses an Integer in base 10, so 1_000_000 parses to the Integer
\* 1000000 as 1000000 does; likewise for a Float.
C13_ParseStripsUnderscores ==
    cell.run =>
      LET stripped == Remove(cellText, "_")
      IN /\ (cellType.t = "Integer" /\ parse_i128(stripped).ok) =>
              cell.res = Ok(Value_Integer(parse_i128(stripped).v))
         /\ (cellType.t = "Integer" /\ cellText = OneMillion) =>
              cell.res = Ok(Value_Integer(1000000))
         /\ (cellType.t = "Float" /\ parse_f64(stripped).ok) =>
              cell.res = Ok(Value_Float(parse_f64(stripped).v.mant,
                                        parse_f64(stripped).v.scale))

(***************************************************************************)
(* Properties of the namespaces.                                           *)
(***************************************************************************)
Range(q) == {q[k] : k \in 1..Len(q)}
NamesOf(ns) == IF ns = "comp" THEN CompNames ELSE TypeNames

\* the registration of ns succeeded unless the root already bound its name,
\* and left the namespace sealed with all its declarations
RegisteredWhole(ns) ==
    /\ registered[ns] \in {"none", "ok", "exists"}
    /\ registered[ns] = "exists" =>
         (ns \in DOMAIN scopeTree["root"].bindings /\ ~scopeTree[ns].exists)
    /\ registered[ns] = "ok" =>
         /\ scopeTree[ns].exists /\ scopeTree[ns].readonly
         /\ scopeTree[ns].bindings = [n \in Range(NamesOf(ns)) |-> "builtin"]

\* a declaration in a namespace, or an assignment of one of its names, failed
\* as sealed
SealedOp ==
    (lastOp.kind # "none" /\ lastOp.frame \in Namespaces) =>
      /\ lastOp.kind = "declare" => lastOp.result = "sealed"
      /\ (lastOp.kind = "set" /\ lastOp.name \in DOMAIN scopeTree[lastOp.frame].bindings) =>
           lastOp.result = "sealed"

\* C14: comp::declare and type::declare make all their declarations and
\* then seal the namespace, so they succeed on a fresh root; every later
\* declaration in a sealed namespace and every later assignment of one of
\* its names fails as sealed, and no step changes a sealed namespace.
C14_NamespacesWriteOnce ==
    /\ [](\A ns \in Namespaces : RegisteredWhole(ns))
    /\ [](SealedOp)
    /\ [][\A ns \in Namespaces :
            scopeTree[ns].readonly => scopeTree'[ns] = scopeTree[ns]]_vars

C14_Witness ==
    /\ registered["comp"] = "ok" /\ registered["type"] = "ok"
    /\ nops = 2
    /\ lastOp.kind = "set" /\ lastOp.frame = "comp" /\ lastOp.name = "gt"
    /\ lastOp.result = "sealed"
    /\ scopeTree["comp"].bindings["gt"] = "builtin"

====
